---- MODULE Spec2Model ----
(***************************************************************************)
(* A model of the diff-parsing and change-classification service           *)
(* (src/src/services/diffParser.js).                                       *)
(*                                                                         *)
(* JavaScript strings are TLA+ strings; the character at index k (0-based) *)
(* of s is SubSeq(s, k+1, k+1).  Regular expressions are values of a small *)
(* syntax tree and are matched by Ends, which computes every position a    *)
(* match that starts at a given position may end at, so that backtracking  *)
(* is exact.                                                               *)
(***************************************************************************)
EXTENDS Integers, Sequences, FiniteSets, TLC

VARIABLES
    patch,          \* the patch text the calls of this behaviour are made with
    pc,             \* position: "idle", "loop" (inside a tracker's for loop), "done"
    mode,           \* which operation runs or ran last
    lines,          \* getAddedLines/getDeletedLines: const lines = patch.split("\n")
    i,              \* the for loop's index (0-based, as in the source)
    newLineNumber,  \* the running post-change line counter
    addedLines,     \* the collection being built (both functions name it addedLines)
    call,           \* the last call of a matcher or of analyzeDiff: its name and arguments
    result,         \* what the last whole call returned, or that it threw
    history,        \* the analyzeDiff calls made so far: each one's patch and outcome
    request,        \* the POSTs to /api/webhooks: each one's position, event, responses sent and outcome
    eventStats,     \* handler.js: const eventStats = { ping, pull_request, ... }
    process         \* the Node.js process: "running" or "crashed"

\* the state of the webhook server
webVars == <<history, request, eventStats, process>>

vars == <<patch, pc, mode, lines, i, newLineNumber, addedLines, call, result,
          webVars>>

----------------------------------------------------------------------------
(* Bounds of the model. *)

\* longest patch, in physical lines, of the line tracker's specification
MaxLines == 4

\* longest patch body (the lines after the optional +++ header) of the
\* analyser's specification
MaxBody == 2

\* most analyzeDiff calls whose outcomes are kept for comparison
MaxCalls == 2

\* most POSTs to /api/webhooks in one behaviour
MaxRequests == 2

----------------------------------------------------------------------------
(* Characters and character classes of JavaScript regular expressions. *)

DigitChars == {"0", "1", "2", "3", "4", "5", "6", "7", "8", "9"}

LowerChars ==
    {"a", "b", "c", "d", "e", "f", "g", "h", "i", "j", "k", "l", "m",
     "n", "o", "p", "q", "r", "s", "t", "u", "v", "w", "x", "y", "z"}

UpperChars ==
    {"A", "B", "C", "D", "E", "F", "G", "H", "I", "J", "K", "L", "M",
     "N", "O", "P", "Q", "R", "S", "T", "U", "V", "W", "X", "Y", "Z"}

\* \w
WordChars == LowerChars \cup UpperChars \cup DigitChars \cup {"_"}

\* \s (the white space that can occur inside one line of a patch)
SpaceChars == {" ", "\t", "\r"}

CharAt(s, k) == SubSeq(s, k, k)

----------------------------------------------------------------------------
(* Regular expressions. *)

Str(w)    == [t |-> "str", w |-> w]       \* the literal text w
Cls(S)    == [t |-> "cls", s |-> S]       \* one character of S: [...]
NotCls(S) == [t |-> "ncls", s |-> S]      \* one character not in S: [^...]
AnyChar   == [t |-> "any"]                \* .
Bol       == [t |-> "bol"]                \* ^
Eol       == [t |-> "eol"]                \* $
Cat(rs)   == [t |-> "cat", rs |-> rs]     \* r1 r2 ... (rs a sequence)
Alt(rs)   == [t |-> "alt", rs |-> rs]     \* r1 | r2 | ...
Star(r)   == [t |-> "star", r |-> r]      \* r*
Plus(r)   == [t |-> "plus", r |-> r]      \* r+
Opt(r)    == [t |-> "opt", r |-> r]       \* r?

RECURSIVE Ends(_, _, _)
RECURSIVE CatEnds(_, _, _, _)
RECURSIVE Closure(_, _, _)

\* The positions k such that r matches s from position from up to k - 1
\* (positions are 1-based; Len(s) + 1 is the end of s).
Ends(r, s, from) ==
    CASE r.t = "str" ->
            IF /\ from + Len(r.w) - 1 <= Len(s)
               /\ SubSeq(s, from, from + Len(r.w) - 1) = r.w
            THEN {from + Len(r.w)} ELSE {}
      [] r.t = "cls" ->
            IF from <= Len(s) /\ CharAt(s, from) \in r.s
            THEN {from + 1} ELSE {}
      [] r.t = "ncls" ->
            IF from <= Len(s) /\ CharAt(s, from) \notin r.s
            THEN {from + 1} ELSE {}
      [] r.t = "any" ->
            IF from <= Len(s) /\ CharAt(s, from) \notin {"\n", "\r"}
            THEN {from + 1} ELSE {}
      [] r.t = "bol" -> IF from = 1 THEN {from} ELSE {}
      [] r.t = "eol" -> IF from = Len(s) + 1 THEN {from} ELSE {}
      [] r.t = "cat" -> CatEnds(r.rs, 1, s, {from})
      [] r.t = "alt" -> UNION {Ends(r.rs[k], s, from) : k \in DOMAIN r.rs}
      [] r.t = "star" -> Closure(r.r, s, {from})
      [] r.t = "plus" -> Closure(r.r, s, Ends(r.r, s, from))
      [] r.t = "opt" -> {from} \cup Ends(r.r, s, from)

\* rs[n], rs[n+1], ... in sequence, started at any position of starts
CatEnds(rs, n, s, starts) ==
    IF n > Len(rs) \/ starts = {} THEN starts
    ELSE CatEnds(rs, n + 1, s, UNION {Ends(rs[n], s, k) : k \in starts})

\* zero or more repetitions of r, started at any position of reached
Closure(r, s, reached) ==
    LET more == UNION {Ends(r, s, k) : k \in reached} \ reached
    IN  IF more = {} THEN reached ELSE Closure(r, s, reached \cup more)

\* RegExp.prototype.test / String.prototype.match used as a condition: the
\* expression matches somewhere in s
Test(r, s) == \E k \in 1..(Len(s) + 1) : Ends(r, s, k) # {}

\* String.prototype.startsWith
StartsWith(s, w) == Len(s) >= Len(w) /\ SubSeq(s, 1, Len(w)) = w

\* String.prototype.slice(1)
Slice1(s) == SubSeq(s, 2, Len(s))

RECURSIVE SplitFrom(_, _, _)
\* the lines of s from position k on, cur being the line read so far
SplitFrom(s, k, cur) ==
    IF k > Len(s) THEN <<cur>>
    ELSE IF CharAt(s, k) = "\n" THEN <<cur>> \o SplitFrom(s, k + 1, "")
    ELSE SplitFrom(s, k + 1, cur \o CharAt(s, k))

\* patch.split("\n")
Split(s) == SplitFrom(s, 1, "")

RECURSIVE ParseDigits(_, _)
\* the number written by the first k characters of the digit string d
ParseDigits(d, k) ==
    IF k = 0 THEN 0
    ELSE 10 * ParseDigits(d, k - 1)
         + (CHOOSE v \in 0..9 : CharAt("0123456789", v + 1) = CharAt(d, k))

\* parseInt(d, 10) of a non-empty string of digits
ParseInt(d) == ParseDigits(d, Len(d))

----------------------------------------------------------------------------
(* The line tracker: getAddedLines and getDeletedLines. *)

Digit == Cls(DigitChars)

\* /^@@ -\d+(?:,\d+)? \+(\d+)(?:,\d+)? @@/ up to its capture group
HunkBeforeGroup ==
    Cat(<<Bol, Str("@@ -"), Plus(Digit),
          Opt(Cat(<<Str(","), Plus(Digit)>>)), Str(" +")>>)

\* ... and after its capture group
HunkAfterGroup == Cat(<<Opt(Cat(<<Str(","), Plus(Digit)>>)), Str(" @@")>>)

\* line.match(/^@@ -\d+(?:,\d+)? \+(\d+)(?:,\d+)? @@/): the extents <<a, b>> of
\* the capture group (\d+) in the matches of the expression; {} is null
HunkGroups(line) ==
    UNION {{<<a, b>> : b \in {e \in Ends(Plus(Digit), line, a) :
                                Ends(HunkAfterGroup, line, e) # {}}} :
           a \in Ends(HunkBeforeGroup, line, 1)}

IsHunkHeader(line) == HunkGroups(line) # {}

\* parseInt(hunkMatch[1], 10): \d+ is greedy, the group is the longest extent
NewStart(line) ==
    LET groups == HunkGroups(line)
        g == CHOOSE ab \in groups : \A cd \in groups : cd[2] <= ab[2]
    IN  ParseInt(SubSeq(line, g[1], g[2] - 1))

\* line.startsWith("+") && !line.startsWith("+++")
IsAddedLine(line) == StartsWith(line, "+") /\ ~StartsWith(line, "+++")

\* line.startsWith("-") && !line.startsWith("---")
IsRemovedLine(line) == StartsWith(line, "-") /\ ~StartsWith(line, "---")

\* line.startsWith(" ")
IsContextLine(line) == StartsWith(line, " ")

\* getAddedLinesIter with the removed line counted as a slot of the new file
getAddedLinesIter_CountsRemoved(st, line) ==
    IF IsHunkHeader(line)
    THEN [st EXCEPT !.newLineNumber = NewStart(line)]
    ELSE IF IsAddedLine(line)
    THEN [newLineNumber |-> st.newLineNumber + 1,
          addedLines |-> Append(st.addedLines,
                                [lineNumber |-> st.newLineNumber,
                                 content |-> Slice1(line)])]
    ELSE IF IsContextLine(line) \/ IsRemovedLine(line)
    THEN [st EXCEPT !.newLineNumber = st.newLineNumber + 1]
    ELSE st

\* getAddedLinesIter with the counter left alone by a hunk header
getAddedLinesIter_NoRestart(st, line) ==
    IF IsHunkHeader(line)
    THEN st
    ELSE IF IsAddedLine(line)
    THEN [newLineNumber |-> st.newLineNumber + 1,
          addedLines |-> Append(st.addedLines,
                                [lineNumber |-> st.newLineNumber,
                                 content |-> Slice1(line)])]
    ELSE IF IsContextLine(line)
    THEN [st EXCEPT !.newLineNumber = st.newLineNumber + 1]
    ELSE st

\* One iteration of getAddedLines's for loop on `line`; st holds the loop's
\* two locals, newLineNumber and addedLines.
getAddedLinesIter(st, line) ==
    IF IsHunkHeader(line)
    THEN [st EXCEPT !.newLineNumber = NewStart(line)]
    ELSE IF IsAddedLine(line)
    THEN [newLineNumber |-> st.newLineNumber + 1,
          addedLines |-> Append(st.addedLines,
                                [lineNumber |-> st.newLineNumber,
                                 content |-> Slice1(line)])]
    ELSE IF IsContextLine(line)
    THEN [st EXCEPT !.newLineNumber = st.newLineNumber + 1]
    ELSE st

\* One iteration of getDeletedLines's for loop on `line`.
getDeletedLinesIter(st, line) ==
    IF IsHunkHeader(line)
    THEN [st EXCEPT !.newLineNumber = NewStart(line)]
    ELSE IF IsRemovedLine(line)
    THEN [newLineNumber |-> st.newLineNumber + 1,
          addedLines |-> Append(st.addedLines,
                                [lineNumber |-> st.newLineNumber,
                                 content |-> Slice1(line)])]
    ELSE IF IsContextLine(line)
    THEN [st EXCEPT !.newLineNumber = st.newLineNumber + 1]
    ELSE st

\* the counter declared outside the function: a call starts from the value
\* the tracker that ran last left
TrackerStart_KeepsCounter ==
    [newLineNumber |-> newLineNumber, addedLines |-> <<>>]

\* the collection declared outside the function: a call appends to what the
\* tracker that ran last collected
TrackerStart_KeepsLines == [newLineNumber |-> 0, addedLines |-> addedLines]

\* the locals before the loop: let newLineNumber = 0; const addedLines = []
TrackerStart == [newLineNumber |-> 0, addedLines |-> <<>>]

RECURSIVE getAddedLinesLoop(_, _)
\* the locals of getAddedLines after the first n iterations over ls
getAddedLinesLoop(ls, n) ==
    IF n = 0 THEN TrackerStart
    ELSE getAddedLinesIter(getAddedLinesLoop(ls, n - 1), ls[n])

RECURSIVE getDeletedLinesLoop(_, _)
\* the locals of getDeletedLines after the first n iterations over ls
getDeletedLinesLoop(ls, n) ==
    IF n = 0 THEN TrackerStart
    ELSE getDeletedLinesIter(getDeletedLinesLoop(ls, n - 1), ls[n])

\* getAddedLines(patch), patch a string
getAddedLines(p) == getAddedLinesLoop(Split(p), Len(Split(p))).addedLines

\* getDeletedLines(patch), patch a string
getDeletedLines(p) == getDeletedLinesLoop(Split(p), Len(Split(p))).addedLines

----------------------------------------------------------------------------
(* Patch texts. *)

RECURSIVE Join(_)
\* the text whose lines are ls
Join(ls) ==
    IF Len(ls) = 0 THEN ""
    ELSE IF Len(ls) = 1 THEN ls[1]
    ELSE ls[1] \o "\n" \o Join(Tail(ls))

\* the physical lines the tracker's patches are made of: two hunk headers
\* (with and without counts), an added, a removed and a context line, the
\* two file headers, and a line of no kind
TrackerLines ==
    {"@@ -1,2 +3,2 @@", "@@ -7 +10 @@", "+a", "-b", " c",
     "+++ b/a.js", "--- a/a.js", "\\ No newline"}

TrackerPatches ==
    {Join(ls) : ls \in UNION {[1..n -> TrackerLines] : n \in 0..MaxLines}}

----------------------------------------------------------------------------
(* The line tracker, one loop iteration per step. *)

NoResult == [status |-> "none"]

NoCall == [op |-> "none"]

Requests == 1..MaxRequests

\* a POST that has not arrived yet
NotReceived ==
    [pc |-> "none", event |-> "", action |-> "", verified |-> "pending",
     responses |-> <<>>, diff |-> [type |-> "undefined"],
     analysis |-> NoResult, logged |-> FALSE]

\* the webhook server before any request: no call made, every counter 0
WebIdle ==
    /\ history = <<>>
    /\ request = [r \in Requests |-> NotReceived]
    /\ eventStats = [ping |-> 0, pull_request |-> 0,
                     pull_request_review |-> 0, other |-> 0]
    /\ process = "running"

Init ==
    /\ patch \in TrackerPatches
    /\ pc = "idle"
    /\ mode = "none"
    /\ lines = <<>>
    /\ i = 0
    /\ newLineNumber = 0
    /\ addedLines = <<>>
    /\ call = NoCall
    /\ result = NoResult
    /\ WebIdle

\* getAddedLines(patch) is called: lines 14-17
getAddedLinesCall ==
    /\ pc \in {"idle", "done"}
    /\ pc' = "loop"
    /\ mode' = "Added"
    /\ lines' = Split(patch)
    /\ i' = 0
    /\ newLineNumber' = TrackerStart.newLineNumber
    /\ addedLines' = TrackerStart.addedLines
    /\ result' = NoResult
    /\ UNCHANGED <<webVars, patch, call>>

\* getDeletedLines(patch) is called: lines 57-60
getDeletedLinesCall ==
    /\ pc \in {"idle", "done"}
    /\ pc' = "loop"
    /\ mode' = "Removed"
    /\ lines' = Split(patch)
    /\ i' = 0
    /\ newLineNumber' = TrackerStart.newLineNumber
    /\ addedLines' = TrackerStart.addedLines
    /\ result' = NoResult
    /\ UNCHANGED <<webVars, patch, call>>

\* one iteration of getAddedLines's loop: lines 19-46
getAddedLinesStep ==
    /\ pc = "loop"
    /\ mode = "Added"
    /\ i < Len(lines)
    /\ LET st == getAddedLinesIter([newLineNumber |-> newLineNumber,
                                    addedLines |-> addedLines], lines[i + 1])
       IN  /\ newLineNumber' = st.newLineNumber
           /\ addedLines' = st.addedLines
    /\ i' = i + 1
    /\ UNCHANGED <<webVars, patch, pc, mode, lines, call, result>>

\* one iteration of getDeletedLines's loop: lines 62-90
getDeletedLinesStep ==
    /\ pc = "loop"
    /\ mode = "Removed"
    /\ i < Len(lines)
    /\ LET st == getDeletedLinesIter([newLineNumber |-> newLineNumber,
                                      addedLines |-> addedLines], lines[i + 1])
       IN  /\ newLineNumber' = st.newLineNumber
           /\ addedLines' = st.addedLines
    /\ i' = i + 1
    /\ UNCHANGED <<webVars, patch, pc, mode, lines, call, result>>

\* the loop is over: return addedLines (lines 48 and 92)
TrackerReturn ==
    /\ pc = "loop"
    /\ i = Len(lines)
    /\ pc' = "done"
    /\ result' = [status |-> "returned", value |-> addedLines]
    /\ UNCHANGED <<webVars, patch, mode, lines, i, newLineNumber, addedLines, call>>

Next ==
    \/ getAddedLinesCall
    \/ getDeletedLinesCall
    \/ getAddedLinesStep
    \/ getDeletedLinesStep
    \/ TrackerReturn

Spec == Init /\ [][Next]_vars

----------------------------------------------------------------------------
(* Properties of the line tracker. *)

Tracking == pc \in {"loop", "done"}

\* the lines read so far that the running tracker records
RecordedPositions ==
    {q \in 1..i : IF mode = "Added" THEN IsAddedLine(lines[q])
                                    ELSE IsRemovedLine(lines[q])}

\* the entry of addedLines that the recorded line at position q became
EntryOf(q) == addedLines[Cardinality({r \in RecordedPositions : r <= q})]

\* the position of the last hunk header before position q, 0 when none
HeaderBefore(q) ==
    LET hs == {h \in 1..(q - 1) : IsHunkHeader(lines[h])}
    IN  IF hs = {} THEN 0 ELSE CHOOSE h \in hs : \A g \in hs : g <= h

\* the number of added and context lines strictly between positions h and q
SlotsBetween(h, q) ==
    Cardinality({r \in (h + 1)..(q - 1) :
                    IsAddedLine(lines[r]) \/ IsContextLine(lines[r])})

\* C1: every entry of the added-line collection is numbered newStart of the
\* most recent hunk header plus the number of added and context lines between
\* that header and the line (removed lines, file headers and other lines add
\* nothing), and its content is the line without its leading "+".
C1_AddedLineNumbers ==
    (Tracking /\ mode = "Added") =>
        /\ Len(addedLines) = Cardinality(RecordedPositions)
        /\ \A q \in RecordedPositions :
              /\ "+" \o EntryOf(q).content = lines[q]
              /\ HeaderBefore(q) > 0 =>
                    EntryOf(q).lineNumber =
                        NewStart(lines[HeaderBefore(q)])
                        + SlotsBetween(HeaderBefore(q), q)

\* C1's case: an added line after a header, a context line and a removed line
C1_Witness ==
    /\ pc = "done"
    /\ mode = "Added"
    /\ lines = <<"@@ -1,2 +3,2 @@", " c", "-b", "+a">>
    /\ addedLines = <<[lineNumber |-> 4, content |-> "a"]>>

\* C2: in getDeletedLines two consecutive removed lines of the same hunk are
\* recorded with the same lineNumber (a removed line leaves the counter
\* unchanged).
C2_RemovedKeepsCounter ==
    (Tracking /\ mode = "Removed") =>
        \A q \in 1..(i - 1) :
            (/\ HeaderBefore(q) > 0
             /\ IsRemovedLine(lines[q])
             /\ IsRemovedLine(lines[q + 1])) =>
                EntryOf(q).lineNumber = EntryOf(q + 1).lineNumber

\* the counter of the tracker of mode m after it has read the lines ls
CounterAfter(m, ls) ==
    IF m = "Added" THEN getAddedLinesLoop(ls, Len(ls)).newLineNumber
    ELSE getDeletedLinesLoop(ls, Len(ls)).newLineNumber

\* C3: in both modes, once a removed line and then a context line of a hunk
\* have been read, the counter is what it is after the context line alone
\* (the removed line taken out of the patch read so far).
C3_RemovedThenContext ==
    (Tracking /\ i >= 2) =>
        ((/\ HeaderBefore(i - 1) > 0
          /\ IsRemovedLine(lines[i - 1])
          /\ IsContextLine(lines[i])) =>
            newLineNumber =
                CounterAfter(mode, SubSeq(lines, 1, i - 2) \o <<lines[i]>>))

\* whether a hunk header lies strictly between positions q and r
HeaderBetween(q, r) == \E h \in (q + 1)..(r - 1) : IsHunkHeader(lines[h])

\* the first added line after each hunk header is numbered from that header's
\* newStart: newStart plus the context lines between them
FirstAfterHeaderFromNewStart ==
    \A q \in RecordedPositions :
        (/\ HeaderBefore(q) > 0
         /\ \A r \in RecordedPositions : ~(HeaderBefore(q) < r /\ r < q)) =>
            EntryOf(q).lineNumber =
                NewStart(lines[HeaderBefore(q)])
                + Cardinality({r \in (HeaderBefore(q) + 1)..(q - 1) :
                                  IsContextLine(lines[r])})

\* C4 as stated: for all patch text the lineNumbers of addedLines are
\* non-decreasing in patch order, and the first added line after a hunk header
\* is numbered from that header's newStart.
C4_NonDecreasing ==
    (Tracking /\ mode = "Added") =>
        /\ \A k \in 1..(Len(addedLines) - 1) :
              addedLines[k].lineNumber <= addedLines[k + 1].lineNumber
        /\ FirstAfterHeaderFromNewStart

\* C4 amended: the lineNumbers of added lines with no hunk header between
\* them are non-decreasing in patch order, and the first added line after a
\* hunk header is numbered from that header's newStart.
C4_NonDecreasingWithinHunk ==
    (Tracking /\ mode = "Added") =>
        /\ \A q, r \in RecordedPositions :
              (q < r /\ ~HeaderBetween(q, r)) =>
                  EntryOf(q).lineNumber <= EntryOf(r).lineNumber
        /\ FirstAfterHeaderFromNewStart

\* C4's case: two hunks with added lines, the second declared below the first
C4_Witness ==
    /\ pc = "done"
    /\ mode = "Added"
    /\ lines = <<"@@ -7 +10 @@", "+a", "@@ -1,2 +3,2 @@", "+a">>
    /\ addedLines = <<[lineNumber |-> 10, content |-> "a"],
                      [lineNumber |-> 3, content |-> "a"]>>

\* C5: a patch without a hunk header yields an empty collection in both modes.
C5_NoHeaderEmpty ==
    (pc = "done" /\ \A q \in 1..Len(lines) : ~IsHunkHeader(lines[q])) =>
        result.value = <<>>

----------------------------------------------------------------------------
(* JavaScript values that are not always strings. *)

JsNull == [type |-> "null"]
JsUndefined == [type |-> "undefined"]
JsFalse == [type |-> "boolean", val |-> FALSE]
JsString(s) == [type |-> "string", val |-> s]
JsNumber(n) == [type |-> "number", val |-> n]

\* String(v) of a string, null or undefined, as a regular expression's test
\* and a property lookup convert their argument
StringOf(v) == IF v.type = "string" THEN v.val ELSE v.type

\* a call's outcome
Returned(v) == [status |-> "returned", value |-> v]
Threw(e) == [status |-> "threw", error |-> e]

RECURSIVE TrimStart(_)
TrimStart(s) ==
    IF Len(s) > 0 /\ CharAt(s, 1) \in SpaceChars
    THEN TrimStart(Slice1(s)) ELSE s

RECURSIVE TrimEnd(_)
TrimEnd(s) ==
    IF Len(s) > 0 /\ CharAt(s, Len(s)) \in SpaceChars
    THEN TrimEnd(SubSeq(s, 1, Len(s) - 1)) ELSE s

\* String.prototype.trim
Trim(s) == TrimEnd(TrimStart(s))

\* the first position of w in s, 0 when s does not contain w
IndexOf(s, w) ==
    LET ks == {k \in 1..(Len(s) - Len(w) + 1) : SubSeq(s, k, k + Len(w) - 1) = w}
    IN  IF ks = {} THEN 0 ELSE CHOOSE k \in ks : \A j \in ks : k <= j

\* s.replace(w, ""): the first occurrence of w taken out of s
RemoveFirst(s, w) ==
    LET k == IndexOf(s, w)
    IN  IF k = 0 THEN s
        ELSE SubSeq(s, 1, k - 1) \o SubSeq(s, k + Len(w), Len(s))

\* s.split(".").pop(): what follows the last "." of s, s itself without one
LastPiece(s) ==
    LET ks == {k \in 1..Len(s) : CharAt(s, k) = "."}
    IN  IF ks = {} THEN s
        ELSE SubSeq(s, (CHOOSE k \in ks : \A j \in ks : j <= k) + 1, Len(s))

----------------------------------------------------------------------------
(* detectLanguage and isTestFile. *)

RECURSIVE detectLanguageFrom(_, _)
\* detectLanguage's loop from line n of ls on
detectLanguageFrom(ls, n) ==
    IF n > Len(ls) THEN JsNull
    ELSE LET trimmed == Trim(ls[n])
         IN  IF StartsWith(trimmed, "+++")
             THEN JsString(LastPiece(Trim(RemoveFirst(RemoveFirst(trimmed, "+++"),
                                                      "b/"))))
             ELSE detectLanguageFrom(ls, n + 1)

\* detectLanguage(patch), patch a string
detectLanguage(p) == detectLanguageFrom(Split(p), 1)

testPatterns ==
    <<Str(".test."),
      Str(".spec."),
      Str("__tests__/"),
      Str("_test."),
      Cat(<<Str(".test"), Eol>>),
      Cat(<<Str(".spec"), Eol>>),
      Cat(<<Str("test_"), Star(AnyChar), Str(".py"), Eol>>),
      Cat(<<Star(AnyChar), Str("_test.py"), Eol>>)>>

\* isTestFile with the first convention left untested
isTestFile_SkipsFirst(filename) ==
    \E k \in DOMAIN testPatterns \ {1} :
        Test(testPatterns[k], StringOf(filename))

\* isTestFile(filename), filename any value
isTestFile(filename) ==
    \E k \in DOMAIN testPatterns : Test(testPatterns[k], StringOf(filename))

----------------------------------------------------------------------------
(* containsNewFunctions. *)

S0 == Star(Cls(SpaceChars))     \* \s*
S1 == Plus(Cls(SpaceChars))     \* \s+
W1 == Plus(Cls(WordChars))      \* \w+

\* (export\s+)?
OptExport == Opt(Cat(<<Str("export"), S1>>))

\* (const|let|var)
Declarator == Alt(<<Str("const"), Str("let"), Str("var")>>)

\* /^\s*(export\s+)?(async\s+)?function\s+\w+\s*\(/
JsFunctionPattern ==
    Cat(<<Bol, S0, OptExport, Opt(Cat(<<Str("async"), S1>>)),
          Str("function"), S1, W1, S0, Str("(")>>)

\* /^\s*(export\s+)?(const|let|var)\s+\w+\s*=\s*(async\s*)?\([^)]*\)\s*=>/
JsArrowPattern ==
    Cat(<<Bol, S0, OptExport, Declarator, S1, W1, S0, Str("="), S0,
          Opt(Cat(<<Str("async"), S0>>)),
          Str("("), Star(NotCls({")"})), Str(")"), S0, Str("=>")>>)

\* /^\s*(export\s+)?(const|let|var)\s+\w+\s*=\s*(async\s+)?function\s*\(/
JsExpressionPattern ==
    Cat(<<Bol, S0, OptExport, Declarator, S1, W1, S0, Str("="), S0,
          Opt(Cat(<<Str("async"), S1>>)), Str("function"), S0, Str("(")>>)

\* /^\s*(async\s+)?(\w+)\s*\([^)]*\)\s*{/
JsMethodPattern ==
    Cat(<<Bol, S0, Opt(Cat(<<Str("async"), S1>>)), W1, S0,
          Str("("), Star(NotCls({")"})), Str(")"), S0, Str("{")>>)

\* /^\s*(async\s+)?def\s+\w+\s*\(/
PyFunctionPattern ==
    Cat(<<Bol, S0, Opt(Cat(<<Str("async"), S1>>)), Str("def"), S1, W1, S0,
          Str("(")>>)

\* /^\s*(public|private|protected)?\s*(static)?\s*(final)?\s*[\w<>[\],\s]+\s+\w+\s*\(/
JavaFunctionPattern ==
    Cat(<<Bol, S0,
          Opt(Alt(<<Str("public"), Str("private"), Str("protected")>>)), S0,
          Opt(Str("static")), S0, Opt(Str("final")), S0,
          Plus(Cls(WordChars \cup {"<", ">", "[", "]", ","} \cup SpaceChars)),
          S1, W1, S0, Str("(")>>)

\* /^\s*func\s+(\(\w+\s+\*?\w+\)\s*)?\w+\s*\(/
GoFunctionPattern ==
    Cat(<<Bol, S0, Str("func"), S1,
          Opt(Cat(<<Str("("), W1, S1, Opt(Str("*")), W1, Str(")"), S0>>)),
          W1, S0, Str("(")>>)

\* the table `patterns`: per language, its patterns in the order of the table,
\* which is the order for ... in visits them in
patterns ==
    [js |-> <<JsFunctionPattern, JsArrowPattern, JsExpressionPattern,
              JsMethodPattern>>,
     py |-> <<PyFunctionPattern>>,
     java |-> <<JavaFunctionPattern>>,
     go |-> <<GoFunctionPattern>>]

\* excludePatterns.commonPatterns: /^\s*(for|while|if|else|switch|catch)\s*\(/
commonPatterns ==
    Cat(<<Bol, S0,
          Alt(<<Str("for"), Str("while"), Str("if"), Str("else"),
                Str("switch"), Str("catch")>>),
          S0, Str("(")>>)

\* lineObj.context: the value of the property, undefined when the object has none
Context(lineObj) ==
    IF "context" \in DOMAIN lineObj THEN JsString(lineObj.context)
    ELSE JsUndefined

\* FunctionLineOutcome without the control-flow exclusion
FunctionLineOutcome_NoExclusion(lineObj, langPatterns) ==
    LET currentContext == Context(lineObj)
    IN  IF currentContext.type # "string" THEN "throw"
        ELSE IF \E k \in DOMAIN langPatterns :
                    Test(langPatterns[k], currentContext.val)
             THEN "push"
             ELSE "none"

\* What the forEach callback does with one added line: "skip" (the exclusion
\* pattern matches), "throw" (currentContext.match on a value that is not a
\* string), "push" (some pattern of the language matches) or "none".
FunctionLineOutcome(lineObj, langPatterns) ==
    LET currentContext == Context(lineObj)
    IN  IF Test(commonPatterns, StringOf(currentContext)) THEN "skip"
        ELSE IF currentContext.type # "string" THEN "throw"
        ELSE IF \E k \in DOMAIN langPatterns :
                    /\ Test(langPatterns[k], currentContext.val)
                    /\ ~Test(commonPatterns, currentContext.val)
             THEN "push"
             ELSE "none"

RECURSIVE FunctionScan_NumbersUnmatched(_, _, _)
\* FunctionScan with the line number pushed for every line that gets past the
\* exclusion, matched or not
FunctionScan_NumbersUnmatched(al, n, langPatterns) ==
    IF n = 0 THEN Returned([functions |-> <<>>, lineNumbers |-> <<>>])
    ELSE LET before == FunctionScan_NumbersUnmatched(al, n - 1, langPatterns)
             outcome == FunctionLineOutcome(al[n], langPatterns)
         IN  IF before.status = "threw" THEN before
             ELSE IF outcome = "throw" THEN Threw("TypeError")
             ELSE IF outcome = "skip" THEN before
             ELSE Returned([functions |->
                                IF outcome = "push"
                                THEN Append(before.value.functions,
                                            Trim(al[n].context))
                                ELSE before.value.functions,
                            lineNumbers |->
                                Append(before.value.lineNumbers,
                                       al[n].lineNumber)])

RECURSIVE FunctionScan_PushesAgain(_, _, _)
\* FunctionScan with the push repeated by the inner, duplicated if: a matched
\* line is entered twice
FunctionScan_PushesAgain(al, n, langPatterns) ==
    IF n = 0 THEN Returned([functions |-> <<>>, lineNumbers |-> <<>>])
    ELSE LET before == FunctionScan_PushesAgain(al, n - 1, langPatterns)
             outcome == FunctionLineOutcome(al[n], langPatterns)
         IN  IF before.status = "threw" THEN before
             ELSE IF outcome = "throw" THEN Threw("TypeError")
             ELSE IF outcome = "push"
             THEN Returned([functions |->
                                before.value.functions
                                    \o <<Trim(al[n].context),
                                         Trim(al[n].context)>>,
                            lineNumbers |->
                                before.value.lineNumbers
                                    \o <<al[n].lineNumber, al[n].lineNumber>>])
             ELSE before

RECURSIVE FunctionScan(_, _, _)
\* the forEach over the first n added lines: the two arrays built, or the throw
FunctionScan(al, n, langPatterns) ==
    IF n = 0 THEN Returned([functions |-> <<>>, lineNumbers |-> <<>>])
    ELSE LET before == FunctionScan(al, n - 1, langPatterns)
             outcome == FunctionLineOutcome(al[n], langPatterns)
         IN  IF before.status = "threw" THEN before
             ELSE IF outcome = "throw" THEN Threw("TypeError")
             ELSE IF outcome = "push"
             THEN Returned([functions |->
                                Append(before.value.functions,
                                       Trim(al[n].context)),
                            lineNumbers |->
                                Append(before.value.lineNumbers,
                                       al[n].lineNumber)])
             ELSE before

\* containsNewFunctions(addedLines, language)
containsNewFunctions(al, language) ==
    IF StringOf(language) \notin DOMAIN patterns
    THEN Returned([hasNewFunctions |-> FALSE, newFunctions |-> <<>>,
                   lineNumbers |-> <<>>, language |-> language])
    ELSE LET scan == FunctionScan(al, Len(al), patterns[StringOf(language)])
         IN  IF scan.status = "threw" THEN scan
             ELSE Returned([hasNewFunctions |-> Len(scan.value.functions) > 0,
                            newFunctions |-> scan.value.functions,
                            lineNumbers |-> scan.value.lineNumbers,
                            language |-> language])

----------------------------------------------------------------------------
(* containsImports and hasTestChanges. *)

\* the table `patterns` of containsImports
importPatterns ==
    [js |-> Alt(<<Cat(<<Str("import"), S1, Star(AnyChar), Str("from")>>),
                  Cat(<<Str("require"), S0, Str("(")>>)>>),
     ts |-> Alt(<<Cat(<<Str("import"), S1, Star(AnyChar), Str("from")>>),
                  Cat(<<Str("require"), S0, Str("(")>>)>>),
     py |-> Alt(<<Cat(<<Str("import"), S1>>),
                  Cat(<<Str("from"), S1, Star(AnyChar), Str("import")>>)>>),
     java |-> Cat(<<Str("import"), S1>>),
     go |-> Cat(<<Str("import"), S1, Str("(")>>),
     rust |-> Cat(<<Str("use"), S1>>),
     ruby |-> Cat(<<Str("require"), S1>>)]

RECURSIVE ImportScan(_, _, _)
\* the lines among the first n added lines that the pattern matches; what is
\* pushed is lineObj.context itself
ImportScan(al, n, pattern) ==
    IF n = 0 THEN <<>>
    ELSE LET line == Context(al[n])
         IN  IF Test(pattern, StringOf(line))
             THEN Append(ImportScan(al, n - 1, pattern),
                         IF line.type = "string" THEN line.val ELSE line)
             ELSE ImportScan(al, n - 1, pattern)

\* containsImports(addedLines, language): patterns[language].test throws on
\* the first added line when the table has no entry for the language
containsImports(al, language) ==
    IF Len(al) = 0 THEN Returned(<<>>)
    ELSE IF StringOf(language) \notin DOMAIN importPatterns
    THEN Threw("TypeError")
    ELSE Returned(ImportScan(al, Len(al), importPatterns[StringOf(language)]))

\* hasTestChanges(addedLines): the callback reads `language`, which is neither
\* a parameter nor declared anywhere, so the first added line throws; the
\* function has no return statement
hasTestChanges(al) ==
    IF Len(al) = 0 THEN Returned(JsUndefined) ELSE Threw("ReferenceError")

----------------------------------------------------------------------------
(* analyzeDiff. *)

\* analyzeDiff(patch), patch any value.  The object literal's properties are
\* evaluated in order and the first throw ends the call; what does not throw
\* has no effect besides its value.
analyzeDiff(arg) ==
    IF arg.type # "string" THEN Threw("TypeError")
    ELSE LET added == getAddedLines(arg.val)
             language == detectLanguage(arg.val)
             functions == containsNewFunctions(added, language)
             imports == containsImports(added, language)
             tests == IF isTestFile(language) THEN hasTestChanges(added)
                      ELSE Returned(JsFalse)
         IN  IF functions.status = "threw" THEN functions
             ELSE IF imports.status = "threw" THEN imports
             ELSE IF tests.status = "threw" THEN tests
             ELSE Returned([addedLines |-> added,
                            deletedLines |-> getDeletedLines(arg.val),
                            filename |-> language,
                            isTestFile |-> isTestFile(language),
                            hasNewFunctions |-> functions.value,
                            hasImportChanges |-> imports.value,
                            hasTestChanges |-> tests.value])

----------------------------------------------------------------------------
(* Calls of the matchers and of analyzeDiff on the exported DiffParser. *)

\* the optional target-file header of a patch
HeaderLines ==
    {"+++ b/a.js", "+++ b/src/app.py", "+++ b/a.ts", "+++ b/__tests__/calc"}

\* the lines of a patch body: a hunk header, added lines (a function
\* declaration, two control-flow lines, a plain statement), a context line
BodyLines ==
    {"@@ -7 +10 @@",
     "+function computeTotal(x, y) {",
     "+for (let i = 0; i < 10; i++) {",
     "+  if (x) {",
     "+x = 1",
     " c"}

Bodies == UNION {[1..n -> BodyLines] : n \in 0..MaxBody}

AnalyzerPatches ==
    {Join(b) : b \in Bodies}
        \cup {Join(<<h>> \o b) : h \in HeaderLines, b \in Bodies}

\* the language tags the matchers are called with
LanguageArgs ==
    {JsString("js"), JsString("py"), JsString("java"), JsString("go"),
     JsString("ts"), JsString("unknown"), JsNull}

RECURSIVE WithContext(_)
\* the added lines in the shape the matchers document for their parameter,
\* Array<{lineNumber, context}>
WithContext(al) ==
    IF Len(al) = 0 THEN <<>>
    ELSE <<[lineNumber |-> al[1].lineNumber, context |-> al[1].content]>>
             \o WithContext(Tail(al))

\* the added-line collections the matchers are called with: what
\* getAddedLines returns, and the same lines in the documented shape
AddedLineArgs == {getAddedLines(patch), WithContext(getAddedLines(patch))}

\* the values analyzeDiff is called with
PatchArgs == {JsString(patch), JsNull, JsUndefined, JsNumber(0)}

InitAnalyzer ==
    /\ patch \in AnalyzerPatches
    /\ pc = "idle"
    /\ mode = "none"
    /\ lines = <<>>
    /\ i = 0
    /\ newLineNumber = 0
    /\ addedLines = <<>>
    /\ call = NoCall
    /\ result = NoResult
    /\ WebIdle

\* a whole call: its name and arguments are recorded with its outcome
Called(c, r) ==
    /\ pc = "idle"
    /\ pc' = "done"
    /\ call' = c
    /\ result' = r
    /\ UNCHANGED <<webVars, patch, mode, lines, i, newLineNumber, addedLines>>

detectLanguageCall ==
    Called([op |-> "detectLanguage", patch |-> patch],
           Returned(detectLanguage(patch)))

containsNewFunctionsCall ==
    \E al \in AddedLineArgs, language \in LanguageArgs :
        Called([op |-> "containsNewFunctions", addedLines |-> al,
                language |-> language],
               containsNewFunctions(al, language))

containsImportsCall ==
    \E al \in AddedLineArgs, language \in LanguageArgs :
        Called([op |-> "containsImports", addedLines |-> al,
                language |-> language],
               containsImports(al, language))

hasTestChangesCall ==
    \E al \in AddedLineArgs :
        Called([op |-> "hasTestChanges", addedLines |-> al],
               hasTestChanges(al))

analyzeDiffCall ==
    \E arg \in PatchArgs :
        Called([op |-> "analyzeDiff", patch |-> arg], analyzeDiff(arg))

\* the caller has taken the outcome; the exported instance awaits the next call
NextCall ==
    /\ pc = "done"
    /\ pc' = "idle"
    /\ call' = NoCall
    /\ result' = NoResult
    /\ UNCHANGED <<webVars, patch, mode, lines, i, newLineNumber, addedLines>>

NextAnalyzer ==
    \/ NextCall
    \/ detectLanguageCall
    \/ containsNewFunctionsCall
    \/ containsImportsCall
    \/ hasTestChangesCall
    \/ analyzeDiffCall

SpecAnalyzer == InitAnalyzer /\ [][NextAnalyzer]_vars

----------------------------------------------------------------------------
(* Properties of the matchers and of analyzeDiff. *)

\* C6: analyzeDiff raises exactly when its argument is missing, null or not
\* text; for every string it returns a result record.
C6_RaisesOnlyForNonText ==
    (pc = "done" /\ call.op = "analyzeDiff") =>
        (result.status = "threw" <=> call.patch.type # "string")

\* C7: called with a language tag its pattern table has no entry for, a
\* matcher returns its empty result and does not raise, whatever the added
\* lines (hasTestChanges takes no language tag: each of its calls is one).
C7_UnsupportedLanguageEmpty ==
    /\ (/\ pc = "done"
        /\ call.op = "containsNewFunctions"
        /\ StringOf(call.language) \notin DOMAIN patterns) =>
            /\ result.status = "returned"
            /\ ~result.value.hasNewFunctions
            /\ result.value.newFunctions = <<>>
            /\ result.value.lineNumbers = <<>>
    /\ (/\ pc = "done"
        /\ call.op = "containsImports"
        /\ StringOf(call.language) \notin DOMAIN importPatterns) =>
            result = Returned(<<>>)
    /\ (pc = "done" /\ call.op = "hasTestChanges") =>
            result.status = "returned"

\* C8: analyzeDiff of a js patch that adds `function computeTotal(x, y) {`
\* returns hasNewFunctions = true and lists the line with the lineNumber the
\* line tracker gave it.
C8_FunctionDeclarationReported ==
    (/\ pc = "done"
     /\ call.op = "analyzeDiff"
     /\ call.patch = JsString(patch)
     /\ detectLanguage(patch) = JsString("js")) =>
        \A n \in DOMAIN getAddedLines(patch) :
            getAddedLines(patch)[n].content = "function computeTotal(x, y) {" =>
                /\ result.status = "returned"
                /\ result.value.hasNewFunctions.hasNewFunctions
                /\ \E j \in DOMAIN result.value.hasNewFunctions.newFunctions :
                      /\ result.value.hasNewFunctions.newFunctions[j]
                             = "function computeTotal(x, y) {"
                      /\ result.value.hasNewFunctions.lineNumbers[j]
                             = getAddedLines(patch)[n].lineNumber

\* the function matcher's result that the state holds, with the added lines
\* it was computed from: of a call of containsNewFunctions, or the field
\* hasNewFunctions of what analyzeDiff returned
FunctionResults ==
    IF pc = "done" /\ result.status = "returned"
    THEN IF call.op = "containsNewFunctions"
         THEN {[al |-> call.addedLines, r |-> result.value]}
         ELSE IF call.op = "analyzeDiff"
         THEN {[al |-> result.value.addedLines,
                r |-> result.value.hasNewFunctions]}
         ELSE {}
    ELSE {}

\* C9: no line that matches the control-flow exclusion pattern is among the
\* recorded function matches, in any language.  (A recorded entry is the
\* trimmed line, and the pattern, which begins ^\s*, matches a line exactly
\* when it matches the trimmed line.)
C9_ControlFlowNeverRecorded ==
    \A fr \in FunctionResults :
        \A j \in DOMAIN fr.r.newFunctions :
            ~Test(commonPatterns, fr.r.newFunctions[j])

\* C9's case: a for line that matches the js method pattern is passed to the
\* matcher with a function declaration, and only the declaration is recorded
C9_Witness ==
    /\ pc = "done"
    /\ call.op = "containsNewFunctions"
    /\ call.language = JsString("js")
    /\ call.addedLines =
           <<[lineNumber |-> 0, context |-> "for (let i = 0; i < 10; i++) {"],
             [lineNumber |-> 1, context |-> "function computeTotal(x, y) {"]>>
    /\ Test(commonPatterns, "for (let i = 0; i < 10; i++) {")
    /\ Test(JsMethodPattern, "for (let i = 0; i < 10; i++) {")
    /\ result = Returned([hasNewFunctions |-> TRUE,
                          newFunctions |-> <<"function computeTotal(x, y) {">>,
                          lineNumbers |-> <<1>>,
                          language |-> JsString("js")])

\* the n-th smallest element of the set S of numbers
NthOf(S, n) == CHOOSE x \in S : Cardinality({y \in S : y <= x}) = n

\* C10: the matched lines and the line numbers of a function-matcher result
\* have the same length and order, entry j of each coming from the same added
\* line, and hasNewFunctions is true exactly when they are not empty.
C10_ParallelArrays ==
    \A fr \in FunctionResults :
        /\ Len(fr.r.newFunctions) = Len(fr.r.lineNumbers)
        /\ fr.r.hasNewFunctions <=> Len(fr.r.newFunctions) > 0
        /\ \E S \in SUBSET DOMAIN fr.al :
              /\ Cardinality(S) = Len(fr.r.newFunctions)
              /\ \A j \in 1..Cardinality(S) :
                    /\ fr.r.newFunctions[j]
                           = Trim(StringOf(Context(fr.al[NthOf(S, j)])))
                    /\ fr.r.lineNumbers[j] = fr.al[NthOf(S, j)].lineNumber

\* C10's case: of two added lines the second is recorded, with its own line
\* number
C10_Witness ==
    /\ pc = "done"
    /\ call.op = "containsNewFunctions"
    /\ call.addedLines =
           <<[lineNumber |-> 0, context |-> "x = 1"],
             [lineNumber |-> 1, context |-> "function computeTotal(x, y) {"]>>
    /\ result.status = "returned"
    /\ result.value.hasNewFunctions
    /\ result.value.newFunctions = <<"function computeTotal(x, y) {">>
    /\ result.value.lineNumbers = <<1>>

----------------------------------------------------------------------------
(* Calls of detectLanguage, isTestFile and analyzeDiff on patches that differ
   in their file-header lines. *)

\* the lines of such a patch: target headers with a lower-case extension, an
\* upper-case extension, no extension and a test-file name, a source header,
\* a context line that shows a target header, a hunk header and an added line
FileLines ==
    {"+++ b/src/app.py",
     "+++ b/src/App.PY",
     "+++ b/Makefile",
     "+++ b/calculator.test.js",
     "--- a/old.rb",
     " +++ b/x.go",
     "@@ -7 +10 @@",
     "+x = 1"}

FilePatches == {Join(b) : b \in UNION {[1..n -> FileLines] : n \in 0..MaxBody}}

\* the filenames isTestFile is called with
Filenames ==
    {"calculator.test.js", "calculator.spec.js", "__tests__/calc.js",
     "calculator_test.js", "calculator.test", "calculator.spec",
     "test_calc.py", "calc_test.py", "contest_entry.py",
     "calculator.js", "latest.js", "tests/calc.js", "test_calc.rb", "js"}

InitFile ==
    /\ patch \in FilePatches
    /\ pc = "idle"
    /\ mode = "none"
    /\ lines = <<>>
    /\ i = 0
    /\ newLineNumber = 0
    /\ addedLines = <<>>
    /\ call = NoCall
    /\ result = NoResult
    /\ WebIdle

isTestFileCall ==
    \E filename \in Filenames :
        Called([op |-> "isTestFile", filename |-> filename],
               Returned(isTestFile(JsString(filename))))

NextFile ==
    \/ NextCall
    \/ detectLanguageCall
    \/ isTestFileCall
    \/ analyzeDiffCall

SpecFile == InitFile /\ [][NextFile]_vars

----------------------------------------------------------------------------
(* Properties of detectLanguage, isTestFile and the file fields of
   analyzeDiff. *)

\* the positions of the lines of ls that begin with the "+++" marker
HeaderPositions(ls) == {n \in DOMAIN ls : StartsWith(ls[n], "+++")}

\* the first such line
FirstHeader(ls) ==
    ls[CHOOSE n \in HeaderPositions(ls) : \A m \in HeaderPositions(ls) : n <= m]

\* the path a "+++" header line names: the marker and the "b/" prefix taken
\* off, white space trimmed
HeaderPath(line) ==
    LET rest == Trim(SubSeq(line, 4, Len(line)))
    IN  IF StartsWith(rest, "b/") THEN SubSeq(rest, 3, Len(rest)) ELSE rest

\* C11: detectLanguage returns py for a patch whose target header is
\* "+++ b/src/app.py", and returns the tag unknown for every patch that has
\* no "+++" header line.
C11_PyAndUnknown ==
    (pc = "done" /\ call.op = "detectLanguage") =>
        LET ls == Split(call.patch)
        IN  /\ (HeaderPositions(ls) # {}
                    /\ FirstHeader(ls) = "+++ b/src/app.py")
                   => result = Returned(JsString("py"))
            /\ HeaderPositions(ls) = {}
                   => result = Returned(JsString("unknown"))

\* c in lower case
LowerChar(c) ==
    LET k == IndexOf("ABCDEFGHIJKLMNOPQRSTUVWXYZ", c)
    IN  IF k = 0 THEN c ELSE CharAt("abcdefghijklmnopqrstuvwxyz", k)

RECURSIVE LowerCase(_)
\* s in lower case
LowerCase(s) ==
    IF Len(s) = 0 THEN ""
    ELSE LowerChar(CharAt(s, 1)) \o LowerCase(Slice1(s))

\* the position of the first "+++" header of ls, when no earlier line shows
\* the marker after leading white space
PlainHeader(ls) ==
    /\ HeaderPositions(ls) # {}
    /\ \A n \in DOMAIN ls :
          StartsWith(Trim(ls[n]), "+++")
              => \E m \in HeaderPositions(ls) : m <= n

\* C12: when the path of the "+++" header contains no ".", detectLanguage
\* returns unknown; otherwise it returns what follows the last "." of the
\* path, in lower case.
C12_ExtensionLowerCased ==
    (pc = "done" /\ call.op = "detectLanguage"
         /\ PlainHeader(Split(call.patch))) =>
        LET path == HeaderPath(FirstHeader(Split(call.patch)))
        IN  IF IndexOf(path, ".") = 0
            THEN result = Returned(JsString("unknown"))
            ELSE result = Returned(JsString(LowerCase(LastPiece(path))))

\* s contains w
Contains(s, w) == IndexOf(s, w) # 0

\* s ends with w
EndsWith(s, w) ==
    Len(s) >= Len(w) /\ SubSeq(s, Len(s) - Len(w) + 1, Len(s)) = w

\* the filename conventions of a test file
MatchesConvention(f) ==
    \/ Contains(f, ".test.")
    \/ Contains(f, ".spec.")
    \/ Contains(f, "__tests__/")
    \/ Contains(f, "_test.")
    \/ EndsWith(f, ".test")
    \/ EndsWith(f, ".spec")
    \/ /\ EndsWith(f, ".py")
       /\ \E k \in 1..(Len(f) - 7) : SubSeq(f, k, k + 4) = "test_"
    \/ EndsWith(f, "_test.py")

\* C13: isTestFile(filename) is true exactly when the filename matches at
\* least one of the fixed conventions (.test., .spec., __tests__/, _test.,
\* trailing .test, trailing .spec, test_*.py, *_test.py); it is true for
\* calculator.test.js, __tests__/calc.js, test_calc.py and calc_test.py and
\* false for calculator.js.
C13_TestFileConventions ==
    (pc = "done" /\ call.op = "isTestFile") =>
        /\ result = Returned(MatchesConvention(call.filename))
        /\ call.filename \in {"calculator.test.js", "__tests__/calc.js",
                              "test_calc.py", "calc_test.py"}
               => result = Returned(TRUE)
        /\ call.filename = "calculator.js" => result = Returned(FALSE)

\* C13's case: isTestFile has classified a file named by the first convention
C13_Witness ==
    /\ pc = "done"
    /\ call = [op |-> "isTestFile", filename |-> "calculator.test.js"]
    /\ result = Returned(TRUE)

\* C14: in the record analyzeDiff returns, filename is the target filename
\* taken from the "+++" header and isTestFile is the test-file classification
\* of that filename; a patch whose header names calculator.test.js yields
\* isTestFile = true.
C14_FilenameAndClassification ==
    (pc = "done" /\ call.op = "analyzeDiff" /\ call.patch.type = "string"
         /\ PlainHeader(Split(call.patch.val))
         /\ result.status = "returned") =>
        LET path == HeaderPath(FirstHeader(Split(call.patch.val)))
        IN  /\ result.value.filename = JsString(path)
            /\ result.value.isTestFile = MatchesConvention(path)
            /\ path = "calculator.test.js" => result.value.isTestFile = TRUE

----------------------------------------------------------------------------
(* Repeated calls of analyzeDiff on the exported DiffParser, with calls of a
   matcher between them. *)

\* the patches of repeated and of concurrent calls: an added line before any
\* hunk header, the same after a hunk header (analyzeDiff returns for both),
\* and an added line of a js file (analyzeDiff throws)
SamplePatches ==
    {"+++ b/a.ts\n+x = 1",
     "+++ b/a.ts\n@@ -7 +10 @@\n+x = 1",
     "+++ b/a.js\n+x = 1"}

\* the locals of the tracker that ran last in analyzeDiff(p), p a string:
\* every getAddedLines call of lines 326-348 ends with them
LastTracker(p) == getAddedLinesLoop(Split(p), Len(Split(p)))

InitRepeat ==
    /\ patch \in SamplePatches
    /\ pc = "idle"
    /\ mode = "none"
    /\ lines = <<>>
    /\ i = 0
    /\ newLineNumber = 0
    /\ addedLines = <<>>
    /\ call = NoCall
    /\ result = NoResult
    /\ WebIdle

\* analyzeDiff(patch) as a whole call; the tracker's locals are left as its
\* last getAddedLines call ended, and the outcome is kept in history
analyzeDiffRepeat ==
    /\ pc = "idle"
    /\ Len(history) < MaxCalls
    /\ pc' = "done"
    /\ mode' = "Added"
    /\ lines' = Split(patch)
    /\ i' = Len(Split(patch))
    /\ newLineNumber' = LastTracker(patch).newLineNumber
    /\ addedLines' = LastTracker(patch).addedLines
    /\ call' = [op |-> "analyzeDiff", patch |-> JsString(patch)]
    /\ result' = analyzeDiff(JsString(patch))
    /\ history' = Append(history, [patch |-> patch,
                                   result |-> analyzeDiff(JsString(patch))])
    /\ UNCHANGED <<patch, request, eventStats, process>>

\* the caller has taken the outcome and holds another patch
NextPatch ==
    /\ pc = "done"
    /\ pc' = "idle"
    /\ patch' \in SamplePatches
    /\ call' = NoCall
    /\ result' = NoResult
    /\ UNCHANGED <<webVars, mode, lines, i, newLineNumber, addedLines>>

NextRepeat ==
    \/ analyzeDiffRepeat
    \/ containsNewFunctionsCall
    \/ NextPatch

SpecRepeat == InitRepeat /\ [][NextRepeat]_vars

\* C15: calling analyzeDiff twice with the same patch text yields identical
\* results; the outcome of a call depends only on the patch argument, not on
\* any earlier call of analyzeDiff or of a matcher.
C15_SamePatchSameResult ==
    \A a, b \in DOMAIN history :
        history[a].patch = history[b].patch
            => history[a].result = history[b].result

\* C15's case: analyzeDiff has been called a second time with the patch of
\* its first call, whose added line precedes every hunk header, and has
\* returned the same record
C15_Witness ==
    /\ pc = "done"
    /\ call.op = "analyzeDiff"
    /\ Len(history) = 2
    /\ history[1].patch = "+++ b/a.ts\n+x = 1"
    /\ history[2].patch = "+++ b/a.ts\n+x = 1"
    /\ history[2].result.status = "returned"
    /\ history[2].result.value.addedLines
           = <<[lineNumber |-> 0, content |-> "x = 1"]>>
    /\ result = history[1].result

----------------------------------------------------------------------------
(* The webhook server: POST /api/webhooks, the setImmediate task of each
   accepted request, and WebhookHandler (index.js and webhooks/handler.js). *)

\* the x-github-event header and the payload's action of a request
WebhookEvents ==
    {[event |-> "pull_request", action |-> "opened"],
     [event |-> "pull_request", action |-> "closed"],
     [event |-> "pull_request_review", action |-> "submitted"],
     [event |-> "push", action |-> ""],
     [event |-> "ping", action |-> ""],
     [event |-> "issues", action |-> "opened"]}

\* handlePullRequest: const relevantActions
relevantActions == {"opened", "synchronize", "reopened"}

InitWebhook ==
    /\ patch = ""
    /\ pc = "idle"
    /\ mode = "none"
    /\ lines = <<>>
    /\ i = 0
    /\ newLineNumber = 0
    /\ addedLines = <<>>
    /\ call = NoCall
    /\ result = NoResult
    /\ WebIdle

\* a step of request r's handling that leaves the parser and the counters alone
RequestStep(r, q) ==
    /\ request' = [request EXCEPT ![r] = q]
    /\ UNCHANGED <<patch, pc, mode, lines, i, newLineNumber, addedLines,
                   call, result, history, eventStats, process>>

\* a POST arrives (requests are numbered in their order of arrival) and its
\* callback runs up to the await of webhooks.verify: lines 32-49
Post(r) ==
    /\ process = "running"
    /\ request[r].pc = "none"
    /\ r > 1 => request[r - 1].pc # "none"
    /\ \E e \in WebhookEvents :
          RequestStep(r, [request[r] EXCEPT !.pc = "verify",
                                            !.event = e.event,
                                            !.action = e.action])

\* express.json() cannot parse the body: the route's callback is not run
\* and the error-handling middleware answers 500 (lines 16 and 84-87)
JsonRejects(r) ==
    /\ process = "running"
    /\ request[r].pc = "none"
    /\ r > 1 => request[r - 1].pc # "none"
    /\ RequestStep(r, [request[r] EXCEPT
                           !.pc = "closed",
                           !.responses = Append(@, 500)])

\* VerifyResolves without the return of line 53: after the 401 of an invalid
\* signature the callback goes on to the 200 and to setImmediate
VerifyResolves_NoReturn(r) ==
    /\ process = "running"
    /\ request[r].pc = "verify"
    /\ \E isValid \in BOOLEAN :
          IF ~isValid
          THEN RequestStep(r, [request[r] EXCEPT
                                  !.pc = "immediate",
                                  !.verified = "invalid",
                                  !.responses = @ \o <<401, 200>>])
          ELSE RequestStep(r, [request[r] EXCEPT
                                  !.pc = "immediate",
                                  !.verified = "valid",
                                  !.responses = Append(@, 200)])

\* webhooks.verify resolves: 401 for an invalid signature, else 200 and the
\* processing is handed to setImmediate: lines 51-71
VerifyResolves(r) ==
    /\ process = "running"
    /\ request[r].pc = "verify"
    /\ \E isValid \in BOOLEAN :
          IF ~isValid
          THEN RequestStep(r, [request[r] EXCEPT
                                  !.pc = "closed",
                                  !.verified = "invalid",
                                  !.responses = Append(@, 401)])
          ELSE RequestStep(r, [request[r] EXCEPT
                                  !.pc = "immediate",
                                  !.verified = "valid",
                                  !.responses = Append(@, 200)])

\* webhooks.verify rejects: the outer catch answers 500 (lines 72-75)
VerifyRejects(r) ==
    /\ process = "running"
    /\ request[r].pc = "verify"
    /\ RequestStep(r, [request[r] EXCEPT
                           !.pc = "closed",
                           !.verified = "raised",
                           !.responses = Append(@, 500)])

\* the setImmediate callback runs handleEvent up to its first await, or to
\* its end for the events it handles without one: lines 127-159, 166-198,
\* 204-216 and 222-229
handleEvent(r) ==
    /\ process = "running"
    /\ request[r].pc = "immediate"
    /\ UNCHANGED <<patch, pc, mode, lines, i, newLineNumber, addedLines,
                   call, result, history, process>>
    /\ CASE request[r].event = "pull_request"
                /\ request[r].action \in relevantActions ->
                 /\ request' = [request EXCEPT ![r].pc = "fetching"]
                 /\ UNCHANGED eventStats
         [] request[r].event = "pull_request"
                /\ request[r].action \notin relevantActions ->
                 /\ request' = [request EXCEPT ![r].pc = "counting"]
                 /\ UNCHANGED eventStats
         [] request[r].event = "pull_request_review" ->
                 /\ request' = [request EXCEPT ![r].pc = "counting"]
                 /\ UNCHANGED eventStats
         [] request[r].event = "push" ->
                 /\ request' = [request EXCEPT ![r].pc = "finished"]
                 /\ UNCHANGED eventStats
         [] request[r].event = "ping" ->
                 /\ request' = [request EXCEPT ![r].pc = "finished"]
                 /\ eventStats' = [eventStats EXCEPT !.ping = @ + 1]
         [] OTHER ->
                 /\ request' = [request EXCEPT ![r].pc = "finished"]
                 /\ eventStats' = [eventStats EXCEPT !.other = @ + 1]

\* services.getPRDiff resolves with the diff text and queueReview calls
\* analyzeDiff on it, which runs to its end before any other task: lines
\* 229-232.  The tracker's locals are left as the call's last getAddedLines
\* ended.
getPRDiffResolves(r) ==
    /\ process = "running"
    /\ request[r].pc = "fetching"
    /\ \E diff \in SamplePatches :
          LET diffAnalysis == analyzeDiff(JsString(diff))
          IN  /\ request' =
                     [request EXCEPT
                          ![r].diff = JsString(diff),
                          ![r].analysis = diffAnalysis,
                          ![r].pc = IF diffAnalysis.status = "returned"
                                    THEN "sleeping" ELSE "raised"]
              /\ mode' = "Added"
              /\ lines' = Split(diff)
              /\ i' = Len(Split(diff))
              /\ newLineNumber' = LastTracker(diff).newLineNumber
              /\ addedLines' = LastTracker(diff).addedLines
    /\ UNCHANGED <<patch, pc, call, result, history, eventStats, process>>

\* services.getPRDiff logs and rethrows the error of the GitHub request
getPRDiffRejects(r) ==
    /\ process = "running"
    /\ request[r].pc = "fetching"
    /\ RequestStep(r, [request[r] EXCEPT !.pc = "raised"])

\* the simulated work of queueReview is over (line 242); queueReview and
\* handlePullRequest return
TimerFires(r) ==
    /\ process = "running"
    /\ request[r].pc = "sleeping"
    /\ RequestStep(r, [request[r] EXCEPT !.pc = "counting"])

\* handleEvent counts the event after the await of its handler: lines
\* 137 and 142
CountEvent(r) ==
    /\ process = "running"
    /\ request[r].pc = "counting"
    /\ request' = [request EXCEPT ![r].pc = "finished"]
    /\ eventStats' =
           IF request[r].event = "pull_request"
           THEN [eventStats EXCEPT !.pull_request = @ + 1]
           ELSE [eventStats EXCEPT !.pull_request_review = @ + 1]
    /\ UNCHANGED <<patch, pc, mode, lines, i, newLineNumber, addedLines,
                   call, result, history, process>>

\* handleEvent has rejected: the callback's catch logs the error and throws
\* it again (lines 63-70), so the promise of the async callback rejects
CatchAndRethrow(r) ==
    /\ process = "running"
    /\ request[r].pc = "raised"
    /\ RequestStep(r, [request[r] EXCEPT !.pc = "escaped", !.logged = TRUE])

\* nothing handles the rejected promise of the callback: Node.js ends the
\* process (its default since version 15) or only warns
UnhandledRejection(r) ==
    /\ request[r].pc = "escaped"
    /\ process = "running"
    /\ request' = [request EXCEPT ![r].pc = "unhandled"]
    /\ process' \in {"running", "crashed"}
    /\ UNCHANGED <<patch, pc, mode, lines, i, newLineNumber, addedLines,
                   call, result, history, eventStats>>

NextWebhook ==
    \E r \in Requests :
        \/ Post(r)
        \/ JsonRejects(r)
        \/ VerifyResolves(r)
        \/ VerifyRejects(r)
        \/ handleEvent(r)
        \/ getPRDiffResolves(r)
        \/ getPRDiffRejects(r)
        \/ TimerFires(r)
        \/ CountEvent(r)
        \/ CatchAndRethrow(r)
        \/ UnhandledRejection(r)

SpecWebhook == InitWebhook /\ [][NextWebhook]_vars

----------------------------------------------------------------------------
(* Properties of the webhook server. *)

\* the requests whose task has called analyzeDiff
Analyzed == {r \in Requests : request[r].analysis # NoResult}

\* C16: calls of analyzeDiff that run interleaved on the shared DiffParser,
\* one per webhook task, do not interfere: each returns what it returns when
\* run alone, whatever the other tasks have analysed before it.
C16_NoInterference ==
    \A r \in Analyzed :
        /\ request[r].analysis = analyzeDiff(request[r].diff)
        /\ \A q \in Analyzed :
              request[q].diff = request[r].diff
                  => request[q].analysis = request[r].analysis

\* C16's case: the tasks of two requests are in flight at once, each has
\* analysed the same patch, one after the other's call, and both hold the
\* same record
C16_Witness ==
    /\ request[1].pc = "sleeping"
    /\ request[2].pc = "sleeping"
    /\ request[1].diff = JsString("+++ b/a.ts\n+x = 1")
    /\ request[2].diff = JsString("+++ b/a.ts\n+x = 1")
    /\ newLineNumber = 1
    /\ request[2].analysis.value.addedLines
           = <<[lineNumber |-> 0, content |-> "x = 1"]>>
    /\ request[1].analysis = request[2].analysis

\* the requests whose processing has failed: getPRDiff rejected or
\* analyzeDiff threw inside handleEvent
Failed == {r \in Requests : request[r].pc \in {"raised", "escaped", "unhandled"}}

\* C17: when the analysis of a pull-request event fails, the failure is
\* caught and logged and stays contained: no error escapes the asynchronous
\* processing task, and the server goes on processing the events it receives
\* afterwards.
C17_FailureContained ==
    /\ \A r \in Failed : request[r].pc # "raised" => request[r].logged
    /\ \A r \in Failed : request[r].pc \notin {"escaped", "unhandled"}
    /\ process = "running"

----------------------------------------------------------------------------
(* Properties of the test-declaration matcher. *)

\* hasTestChanges: const testPatterns, by language tag
testDeclarationPatterns ==
    [js |-> Cat(<<Str("describe"), S0, Str("(")>>),
     ts |-> Cat(<<Str("describe"), S0, Str("(")>>),
     py |-> Cat(<<Str("def"), S1, Str("test_")>>),
     java |-> Str("@Test"),
     go |-> Cat(<<Str("func"), S1, Str("Test")>>),
     rust |-> Cat(<<Str("#"), Cls({"c", "f", "g", "(", "t", "e", "s", ")"})>>),
     ruby |-> Cat(<<Str("describe"), S0, Str("(")>>)]

RECURSIVE TestDeclarations(_, _)
\* the added lines of al that match the test-declaration pattern of the
\* language tag, in order; none for a tag without a pattern
TestDeclarations(al, language) ==
    IF Len(al) = 0 \/ StringOf(language) \notin DOMAIN testDeclarationPatterns
    THEN <<>>
    ELSE (IF Test(testDeclarationPatterns[StringOf(language)], al[1].content)
          THEN <<al[1].content>> ELSE <<>>)
             \o TestDeclarations(Tail(al), language)

\* C18: analyzeDiff passes the added lines and the detected language to the
\* test-declaration matcher, and the record's hasTestChanges is the list of
\* the added lines that match the language's test-declaration pattern, empty
\* when none match, for test files and other files alike.
C18_TestDeclarationList ==
    (pc = "done" /\ call.op = "analyzeDiff" /\ call.patch.type = "string"
         /\ result.status = "returned") =>
        /\ result.value.hasTestChanges.type = "array"
        /\ result.value.hasTestChanges.val
               = TestDeclarations(getAddedLines(call.patch.val),
                                  detectLanguage(call.patch.val))

----------------------------------------------------------------------------
(* The counter of getDeletedLines against the counter of getAddedLines. *)

\* whether only added and context lines lie strictly between positions h and q
OnlySlotsBetween(h, q) ==
    \A r \in (h + 1)..(q - 1) : IsAddedLine(lines[r]) \/ IsContextLine(lines[r])

\* C19: the counter evolves alike in both modes: in getDeletedLines an added
\* line increments the counter although it is not recorded, so a removed
\* line that follows n added or context lines in a hunk with start s is
\* recorded with lineNumber s + n, the value getAddedLines's counter has at
\* that position of the patch.
C19_RemovedNumberedAsAdded ==
    (Tracking /\ mode = "Removed") =>
        \A q \in RecordedPositions :
            (HeaderBefore(q) > 0 /\ OnlySlotsBetween(HeaderBefore(q), q)) =>
                /\ EntryOf(q).lineNumber =
                       NewStart(lines[HeaderBefore(q)]) + (q - HeaderBefore(q) - 1)
                /\ EntryOf(q).lineNumber =
                       getAddedLinesLoop(lines, q - 1).newLineNumber

----------------------------------------------------------------------------
(* One entry for each matched line of the function matcher. *)

\* the function patterns of the language tag that match the string s
MatchingPatterns(language, s) ==
    IF StringOf(language) \notin DOMAIN patterns THEN {}
    ELSE {k \in DOMAIN patterns[StringOf(language)] :
             Test(patterns[StringOf(language)][k], s)}

\* the added lines of al that get past the control-flow exclusion and match
\* at least one function pattern of the language tag
MatchedLines(al, language) ==
    {n \in DOMAIN al :
        /\ Context(al[n]).type = "string"
        /\ ~Test(commonPatterns, Context(al[n]).val)
        /\ MatchingPatterns(language, Context(al[n]).val) # {}}

\* C20: in the function matcher every added line contributes at most one
\* entry to the two lists, however many of the language's patterns it
\* matches: the lists have one entry for each matched line and none besides.
C20_OneEntryPerLine ==
    \A fr \in FunctionResults :
        /\ Len(fr.r.newFunctions) = Cardinality(MatchedLines(fr.al, fr.r.language))
        /\ Len(fr.r.lineNumbers) = Cardinality(MatchedLines(fr.al, fr.r.language))
        /\ Len(fr.r.newFunctions) <= Len(fr.al)

\* C20's case: each of two added function declarations, tried against the
\* four js patterns, has one entry in each list
C20_Witness ==
    /\ pc = "done"
    /\ call.op = "containsNewFunctions"
    /\ call.language = JsString("js")
    /\ call.addedLines =
           <<[lineNumber |-> 0, context |-> "function computeTotal(x, y) {"],
             [lineNumber |-> 1, context |-> "function computeTotal(x, y) {"]>>
    /\ MatchingPatterns(JsString("js"), "function computeTotal(x, y) {") = {1}
    /\ result.status = "returned"
    /\ result.value.newFunctions =
           <<"function computeTotal(x, y) {", "function computeTotal(x, y) {">>
    /\ result.value.lineNumbers = <<0, 1>>

----------------------------------------------------------------------------
(* The line detectLanguage takes the language from. *)

RECURSIVE PlusHeaderLines(_)
\* the lines of ls that begin with "+++" at their first character, in order
PlusHeaderLines(ls) ==
    IF Len(ls) = 0 THEN <<>>
    ELSE (IF StartsWith(ls[1], "+++") THEN <<ls[1]>> ELSE <<>>)
             \o PlusHeaderLines(Tail(ls))

\* C21: detectLanguage takes the language only from the first line of the
\* patch that begins with "+++" at its first character, never from a "---"
\* header: its result is what it returns for that line alone (for the empty
\* patch when there is none), so a line that shows "+++" after leading white
\* space, such as the context line " +++ b/x.py", does not determine it.
C21_OnlyFirstPlusHeader ==
    (pc = "done" /\ call.op = "detectLanguage") =>
        LET headers == PlusHeaderLines(Split(call.patch))
        IN  result = Returned(detectLanguage(IF Len(headers) = 0 THEN ""
                                             ELSE headers[1]))

----------------------------------------------------------------------------
(* Responses and the hand-over to handleEvent. *)

\* the requests handleEvent has been invoked for
Handled ==
    {r \in Requests :
        request[r].pc \in {"fetching", "sleeping", "raised", "counting",
                           "escaped", "unhandled", "finished"}}

\* C22: every POST to /api/webhooks is answered once: no request ever has
\* two responses, and one whose callback is past the verification has exactly
\* one.  handleEvent is invoked for a request only after its signature was
\* verified as valid and its 200 was sent; a request with an invalid
\* signature gets 401, one whose verification raises gets 500, and neither
\* is passed to handleEvent.
C22_OneResponseThenHandle ==
    \A r \in Requests :
        /\ Len(request[r].responses) <= 1
        /\ request[r].pc \notin {"none", "verify"}
               => Len(request[r].responses) = 1
        /\ request[r].verified = "invalid"
               => request[r].responses = <<401>> /\ r \notin Handled
        /\ request[r].verified = "raised"
               => request[r].responses = <<500>> /\ r \notin Handled
        /\ (request[r].pc = "immediate" \/ r \in Handled)
               => request[r].verified = "valid" /\ request[r].responses = <<200>>

\* C22's case: a request with an invalid signature was answered with 401 and
\* dropped, and a later request with a valid one was answered with 200 and
\* then passed to handleEvent
C22_Witness ==
    /\ request[1].verified = "invalid"
    /\ request[1].responses = <<401>>
    /\ request[1].pc = "closed"
    /\ request[2].verified = "valid"
    /\ request[2].responses = <<200>>
    /\ 2 \in Handled

====
